---- MODULE Spec2Model ----
(***************************************************************************)
(* YumSafe (Zaiyong/alergy): the allergy profile store, the Scanner        *)
(* screen's press handlers and the Gemini analysis service, as state       *)
(* machines.                                                               *)
(*                                                                         *)
(* JavaScript runs one task at a time: the code between two awaits is one  *)
(* atomic step, and the continuation of a settled promise runs before the  *)
(* next timer, network or UI event.  One action of the model is therefore  *)
(* one event (a press, a permission answer, a picker or camera result, a   *)
(* file read, a network answer, a timer) together with all the code that   *)
(* event runs up to the next await.                                        *)
(*                                                                         *)
(* A React handler is a closure of the render it was created in: the       *)
(* isAnalyzing and selectedAllergenIds it reads are the values of that     *)
(* render, captured at the press, not the current state.                   *)
(***************************************************************************)
EXTENDS Integers, Sequences, FiniteSets, TLC

\* ------------------------------------------------------------------ bounds
MaxPresses == 2          \* press handlers started on the Scanner screen
MaxTextLen == 201        \* longest response text considered
MaxWrites  == 2          \* storage writes queued at a time
MaxWords   == 2          \* words of an error message the catch block sees

\* ------------------------------------------------------- program constants
API_TIMEOUT_MS == 30000
FallbackPrefixLen == 200
ALLERGY_PROFILE_STORAGE_KEY == "@yumsafe:allergy_profile"
GEMINI_MODEL_NAME == "gemini-2.0-flash"

Range(s) == {s[i] : i \in DOMAIN s}
Min(a, b) == IF a < b THEN a ELSE b

\* --------------------------------------------------------------- allergens
EU_ALLERGENS ==
  << [id |-> "gluten",      label |-> "Cereals containing gluten (wheat, rye, barley, oats)"],
     [id |-> "crustaceans", label |-> "Crustaceans"],
     [id |-> "eggs",        label |-> "Eggs"],
     [id |-> "fish",        label |-> "Fish"],
     [id |-> "peanuts",     label |-> "Peanuts"],
     [id |-> "soybeans",    label |-> "Soybeans"],
     [id |-> "milk",        label |-> "Milk and dairy products"],
     [id |-> "tree_nuts",   label |-> "Tree nuts"],
     [id |-> "celery",      label |-> "Celery"],
     [id |-> "mustard",     label |-> "Mustard"],
     [id |-> "sesame",      label |-> "Sesame seeds"],
     [id |-> "sulphites",   label |-> "Sulphur dioxide and sulphites"],
     [id |-> "lupin",       label |-> "Lupin"],
     [id |-> "molluscs",    label |-> "Molluscs"] >>

\* the type AllergenId: the union of the 14 string literals
AllergenId ==
  {"gluten", "crustaceans", "eggs", "fish", "peanuts", "soybeans", "milk",
   "tree_nuts", "celery", "mustard", "sesame", "sulphites", "lupin",
   "molluscs"}

Undefined == [id |-> "undefined", label |-> "undefined"]

\* getAllergenById with the first entry of EU_ALLERGENS left out of the search
getAllergenByIdTail(id) ==
  IF \E i \in 2..Len(EU_ALLERGENS) : EU_ALLERGENS[i].id = id
  THEN LET i == CHOOSE k \in 2..Len(EU_ALLERGENS) :
                  /\ EU_ALLERGENS[k].id = id
                  /\ \A j \in 2..(k - 1) : EU_ALLERGENS[j].id # id
       IN EU_ALLERGENS[i]
  ELSE Undefined

\* EU_ALLERGENS.find((allergen) => allergen.id === id): the first match, or
\* undefined (modelled as the record with id "undefined")
getAllergenById(id) ==
  IF \E i \in DOMAIN EU_ALLERGENS : EU_ALLERGENS[i].id = id
  THEN LET i == CHOOSE k \in DOMAIN EU_ALLERGENS :
                  /\ EU_ALLERGENS[k].id = id
                  /\ \A j \in 1..(k - 1) : EU_ALLERGENS[j].id # id
       IN EU_ALLERGENS[i]
  ELSE Undefined

\* allergen?.label.en ?? id
getAllergenLabel(id) ==
  LET allergen == getAllergenById(id)
  IN IF allergen = Undefined THEN id ELSE allergen.label

\* the icon name of each allergen id
ALLERGEN_ICONS ==
  [gluten |-> "grain", crustaceans |-> "set-meal",
   eggs |-> "breakfast-dining", fish |-> "set-meal", peanuts |-> "circle",
   soybeans |-> "eco", milk |-> "local-cafe", tree_nuts |-> "circle",
   celery |-> "eco", mustard |-> "restaurant-menu", sesame |-> "grain",
   sulphites |-> "science", lupin |-> "eco", molluscs |-> "set-meal"]

\* ALLERGEN_ICONS[id] || 'help-outline': a missing key gives undefined, and
\* undefined and the empty string are falsy
getAllergenIcon(id) ==
  IF id \in DOMAIN ALLERGEN_ICONS /\ ALLERGEN_ICONS[id] # ""
  THEN ALLERGEN_ICONS[id]
  ELSE "help-outline"

\* ------------------------------------------------------------------ errors
\* A thrown value: an AnalysisError with a code, another Error with a
\* message, or a value that is not an Error.  A message is modelled by the
\* set of the patterns of analyzeLabel's catch block that occur in it.
NoError == [type |-> "none", code |-> "none", msg |-> {}]
AnalysisError(code) == [type |-> "AnalysisError", code |-> code, msg |-> {}]
PlainError(msg) == [type |-> "Error", code |-> "none", msg |-> msg]
NonError == [type |-> "other", code |-> "none", msg |-> {}]

ErrorCodes == {"BLURRY_IMAGE", "NO_INGREDIENTS", "API_TIMEOUT", "API_ERROR",
               "INVALID_IMAGE", "UNKNOWN"}

\* message.includes(pattern)
Includes(msg, pattern) == pattern \in msg

\* the message of getGeminiClient's error:
\* 'EXPO_PUBLIC_GEMINI_API_KEY is not set. Please add it to your .env file.'
\* ("EXPO_PUBLIC_GEMINI_API_KEY" contains "API")
MissingKeyMessage == {"EXPO_PUBLIC_GEMINI_API_KEY", "API"}

\* MapError with an unmatched error rethrown as it is
MapErrorRethrow(error) ==
  IF error.type = "AnalysisError" THEN error
  ELSE IF error.type = "Error" /\ error.msg # {}
  THEN AnalysisError("API_ERROR")
  ELSE error

\* analyzeLabel's catch block: the error that leaves analyzeLabel
MapError(error) ==
  IF error.type = "AnalysisError" THEN error
  ELSE IF error.type = "Error"
  THEN IF \/ Includes(error.msg, "EXPO_PUBLIC_GEMINI_API_KEY")
          \/ Includes(error.msg, "API key")
          \/ Includes(error.msg, "apiKey")
       THEN AnalysisError("API_ERROR")
       ELSE IF Includes(error.msg, "timeout") \/ Includes(error.msg, "TIMEOUT")
       THEN AnalysisError("API_TIMEOUT")
       ELSE IF \/ Includes(error.msg, "429")
               \/ Includes(error.msg, "Resource exhausted")
               \/ Includes(error.msg, "rate limit")
               \/ Includes(error.msg, "quota")
       THEN AnalysisError("API_ERROR")
       ELSE IF \/ Includes(error.msg, "API")
               \/ Includes(error.msg, "401")
               \/ Includes(error.msg, "403")
       THEN AnalysisError("API_ERROR")
       ELSE IF \/ Includes(error.msg, "image")
               \/ Includes(error.msg, "blurry")
               \/ Includes(error.msg, "read")
       THEN AnalysisError("BLURRY_IMAGE")
       ELSE AnalysisError("UNKNOWN")
  ELSE AnalysisError("UNKNOWN")

\* ----------------------------------------------------------- response text
\* The text of a model response: optional surrounding whitespace, an
\* optional markdown fence, a body that is JSON or not, the words of the
\* catch block's patterns that occur in it (in the spelling of the text),
\* and its length.
\* A JSON body is invalid, null, a scalar or an object; of an object the
\* model keeps the JavaScript type of each of the four fields.
StatusValues == {"absent", "empty", "safe", "caution", "unsafe", "SAFE"}
ListValues == {"absent", "strs", "mixed", "str"}
PalValues == {"absent", "strs", "mixed"}
ExplanationValues == {"absent", "empty", "str", "num"}

NonObject(kind) ==
  [kind |-> kind, status |-> "absent", allergens |-> "absent",
   pal |-> "absent", explanation |-> "absent"]

JsonBodies ==
  {NonObject("invalid"), NonObject("null"), NonObject("scalar")} \cup
  [kind : {"object"}, status : StatusValues, allergens : ListValues,
   pal : PalValues, explanation : ExplanationValues]

HintWords == {"blurry", "Unclear", "cannot read", "no ingredients",
              "Ingredients Not Found"}

\* String.prototype.toLowerCase on one word of the text
LowerWord(w) ==
  CASE w = "Unclear" -> "unclear"
    [] w = "Ingredients Not Found" -> "ingredients not found"
    [] OTHER -> w

toLowerCase(hints) == {LowerWord(w) : w \in hints}

TextLens == (FallbackPrefixLen - 1)..MaxTextLen

ResponseTexts ==
  [padded : BOOLEAN, fence : {"none", "json", "plain"}, body : JsonBodies,
   hints : {hs \in SUBSET HintWords : Cardinality(hs) <= 2},
   len : TextLens]

\* responseText.trim()
trim(text) == [text EXCEPT !.padded = FALSE]

\* jsonText.startsWith('```json') / jsonText.startsWith('```')
startsWithJsonFence(text) == ~text.padded /\ text.fence = "json"
startsWithFence(text) == ~text.padded /\ text.fence \in {"json", "plain"}

\* the two replace() calls of either branch remove the fence
StripFence(text) ==
  IF startsWithJsonFence(text) THEN [text EXCEPT !.fence = "none"]
  ELSE IF startsWithFence(text) THEN [text EXCEPT !.fence = "none"]
  ELSE text

\* JSON.parse: a SyntaxError for a body that is not JSON or still carries
\* its fence, the parsed value otherwise (whitespace around it is allowed)
JsonParseThrows(text) == text.fence # "none" \/ text.body.kind = "invalid"

\* !parsed.status || !['safe','caution','unsafe'].includes(parsed.status);
\* reading .status of null is a TypeError, of a scalar it is undefined
StatusInvalid(parsed) ==
  \/ parsed.kind = "null"
  \/ parsed.kind = "scalar"
  \/ parsed.status \in {"absent", "empty"}
  \/ parsed.status \notin {"safe", "caution", "unsafe"}

\* Array.isArray(x) ? x : []
ArrayOrEmpty(x) == IF x \in {"strs", "mixed"} THEN x ELSE "empty"

\* parsed.explanation || 'No explanation provided'
ExplanationOrDefault(x) ==
  IF x \in {"absent", "empty"} THEN [kind |-> "default", len |-> 0]
  ELSE [kind |-> x, len |-> 0]

NoResult ==
  [status |-> "none", allergens |-> "none", pal |-> "none",
   explanation |-> [kind |-> "none", len |-> 0]]

\* ParseFallback with the fallback verdict 'safe' and the raw text untruncated
ParseFallbackSafe(responseText) ==
  LET lowerText == toLowerCase(responseText.hints)
  IN IF \/ "blurry" \in lowerText
        \/ "unclear" \in lowerText
        \/ "cannot read" \in lowerText
     THEN [result |-> NoResult, error |-> AnalysisError("BLURRY_IMAGE")]
     ELSE IF \/ "no ingredients" \in lowerText
             \/ "ingredients not found" \in lowerText
     THEN [result |-> NoResult, error |-> AnalysisError("NO_INGREDIENTS")]
     ELSE [result |-> [status |-> "safe", allergens |-> "empty",
                       pal |-> "empty",
                       explanation |->
                         [kind |-> "fallback", len |-> responseText.len]],
           error |-> NoError]

\* the catch block of parseGeminiResponse: the patterns of the lower-cased
\* text, then the fallback result with responseText.substring(0, 200)
ParseFallback(responseText) ==
  LET lowerText == toLowerCase(responseText.hints)
  IN IF \/ "blurry" \in lowerText
        \/ "unclear" \in lowerText
        \/ "cannot read" \in lowerText
     THEN [result |-> NoResult, error |-> AnalysisError("BLURRY_IMAGE")]
     ELSE IF \/ "no ingredients" \in lowerText
             \/ "ingredients not found" \in lowerText
     THEN [result |-> NoResult, error |-> AnalysisError("NO_INGREDIENTS")]
     ELSE [result |-> [status |-> "caution", allergens |-> "empty",
                       pal |-> "empty",
                       explanation |->
                         [kind |-> "fallback",
                          len |-> Min(responseText.len, FallbackPrefixLen)]],
           error |-> NoError]

\* parseGeminiResponse with the patterns looked for in the text before it
\* is parsed
parseGeminiResponsePatternsFirst(responseText) ==
  LET jsonText == StripFence(trim(responseText))
      f == ParseFallback(responseText)
  IN IF f.error # NoError \/ JsonParseThrows(jsonText)
        \/ StatusInvalid(jsonText.body)
     THEN f
     ELSE [result |-> [status |-> jsonText.body.status,
                       allergens |-> ArrayOrEmpty(jsonText.body.allergens),
                       pal |-> ArrayOrEmpty(jsonText.body.pal),
                       explanation |->
                         ExplanationOrDefault(jsonText.body.explanation)],
           error |-> NoError]

\* parseGeminiResponse: a result, or the error it throws
parseGeminiResponse(responseText) ==
  LET jsonText == StripFence(trim(responseText))
  IN IF JsonParseThrows(jsonText) \/ StatusInvalid(jsonText.body)
     THEN ParseFallback(responseText)
     ELSE [result |-> [status |-> jsonText.body.status,
                       allergens |-> ArrayOrEmpty(jsonText.body.allergens),
                       pal |-> ArrayOrEmpty(jsonText.body.pal),
                       explanation |->
                         ExplanationOrDefault(jsonText.body.explanation)],
           error |-> NoError]

\* ----------------------------------------------------------- image inputs
\* An image is known by its format and by whether it is the output of the
\* resize step.  A string that stands for an image is a data URI
\* "data:<mime>;base64,<base64>", a file URI "file://...", an absolute path
\* "/..." or the bare base64 text.
\* the first character of the base64 text of an image: a JPEG file starts
\* with the bytes FF D8 FF, base64 "/9j/"; a PNG file with 89 50 4E, "iVBO"
Base64First(img) == IF img.fmt = "jpeg" THEN "/" ELSE "i"

Base64Of(img) == [form |-> "base64", img |-> img, mime |-> "none"]
DataUriOf(img, mime) == [form |-> "dataUri", img |-> img, mime |-> mime]
FileUriOf(img) == [form |-> "fileUri", img |-> img, mime |-> "none"]
NoInput == [form |-> "none", img |-> [fmt |-> "none", resized |-> FALSE],
            mime |-> "none"]

\* imageInput.startsWith('data:')
startsWithData(imageInput) == imageInput.form = "dataUri"

\* imageInput.startsWith('file://') || imageInput.startsWith('/')
startsWithFileOrSlash(imageInput) ==
  \/ imageInput.form \in {"fileUri", "path"}
  \/ imageInput.form = "base64" /\ Base64First(imageInput.img) = "/"

\* imageInput.toLowerCase().endsWith('.png') (a file keeps the extension of
\* its format; base64 text does not end in ".png")
endsWithPng(imageInput) ==
  imageInput.form \in {"fileUri", "path"} /\ imageInput.img.fmt = "png"

\* Step 1 of analyzeLabel up to its first await: either the base64 data and
\* the mime type, or the need to read the file first
ConvertImage(imageInput) ==
  IF startsWithData(imageInput)
  THEN [await |-> FALSE, data |-> Base64Of(imageInput.img),
        mimeType |-> imageInput.mime]
  ELSE IF startsWithFileOrSlash(imageInput)
  THEN [await |-> TRUE, data |-> NoInput,
        mimeType |-> IF endsWithPng(imageInput) THEN "image/png"
                     ELSE "image/jpeg"]
  ELSE [await |-> FALSE, data |-> imageInput, mimeType |-> "image/jpeg"]

\* imageUriToBase64: what reading the file can give.  Base64 text taken for
\* a path names no file, so reading it fails.
ReadOutcomes(imageInput) ==
  IF imageInput.form \in {"fileUri", "path"}
  THEN {"ok", "read_error", "too_large"}
  ELSE {"read_error"}

imageUriToBase64(imageInput, outcome) ==
  IF outcome = "ok"
  THEN [data |-> Base64Of(imageInput.img), error |-> NoError]
  ELSE [data |-> NoInput, error |-> AnalysisError("INVALID_IMAGE")]

\* Step 2 and 5: the prompt text built from the allergen ids
LabelsOf(ids) == [i \in DOMAIN ids |-> getAllergenLabel(ids[i])]

\* BuildPrompt with the labels joined last to first
BuildPromptReversed(userAllergenIds) ==
  LET userAllergenLabels == LabelsOf(userAllergenIds)
      n == Len(userAllergenLabels)
  IN IF n > 0
     THEN [profile |-> "User's allergy profile",
           labels |-> [i \in 1..n |-> userAllergenLabels[n + 1 - i]]]
     ELSE [profile |->
             "User has no selected allergens (scanning for all allergens)",
           labels |-> << >>]

\* userProfileText: the heading and the labels joined with ', '
BuildPrompt(userAllergenIds) ==
  LET userAllergenLabels == LabelsOf(userAllergenIds)
  IN IF Len(userAllergenLabels) > 0
     THEN [profile |-> "User's allergy profile", labels |-> userAllergenLabels]
     ELSE [profile |->
             "User has no selected allergens (scanning for all allergens)",
           labels |-> << >>]

NoRequest ==
  [model |-> "none", prompt |-> [profile |-> "none", labels |-> << >>],
   data |-> NoInput, mimeType |-> "none"]

\* PrepareRequest with a client created without looking at the key
PrepareRequestNoKeyCheck(data, mimeType, userAllergenIds, keySet) ==
  [request |-> [model |-> GEMINI_MODEL_NAME,
                prompt |-> BuildPrompt(userAllergenIds),
                data |-> data, mimeType |-> mimeType],
   error |-> NoError]

\* Steps 2 to 6: with the image data at hand, build the prompt, create the
\* client (getGeminiClient throws when the key is not set) and issue the
\* request; an error goes through the catch block
PrepareRequest(data, mimeType, userAllergenIds, keySet) ==
  IF ~keySet
  THEN [request |-> NoRequest,
        error |-> MapError(PlainError(MissingKeyMessage))]
  ELSE [request |-> [model |-> GEMINI_MODEL_NAME,
                     prompt |-> BuildPrompt(userAllergenIds),
                     data |-> data, mimeType |-> mimeType],
        error |-> NoError]

\* Step 7 and the catch block: what analyzeLabel returns or throws once the
\* race is settled by a response text or by a rejection
SettleWith(kind, text, error) ==
  IF kind = "response"
  THEN LET p == parseGeminiResponse(text)
       IN [result |-> p.result,
           error |-> IF p.error = NoError THEN NoError ELSE MapError(p.error)]
  ELSE [result |-> NoResult, error |-> MapError(error)]

\* ------------------------------------------------------------------- state
VARIABLES
  build,                \* "resize": the Scanner screen that resizes the image
                        \* first; "direct": the one that passes it as it is
  keySet,               \* EXPO_PUBLIC_GEMINI_API_KEY is set
  cameraGranted,        \* useCameraPermissions(): permission.granted
  mediaGranted,         \* useMediaLibraryPermissions(): granted
  isAnalyzing,          \* the Scanner screen's isAnalyzing state
  handlers,             \* the press handlers started so far, by number
  selectedAllergenIds,  \* the provider's selection
  isLoading,            \* the provider's isLoading state
  loading,              \* a loadProfile call is waiting for storage
  store,                \* the stored profile under the storage key
  writeQueue,           \* the setItem calls not yet completed
  history,              \* what the last reload saw and restored
  trace,                \* what the provider's calls have done so far
  responseText,         \* the text handed to parseGeminiResponse
  parsed,               \* what analyzeLabel made of it
  looked,               \* the last lookups in the allergen tables
  caught,               \* the value caught by analyzeLabel's catch block
  rethrown              \* the error the catch block throws for it

scannerVars == <<build, keySet, cameraGranted, mediaGranted, isAnalyzing,
                 handlers>>
profileVars == <<selectedAllergenIds, isLoading, loading, store, writeQueue,
                 history, trace>>
parseVars == <<responseText, parsed>>
lookupVars == <<looked>>
catchVars == <<caught, rethrown>>
vars == <<build, keySet, cameraGranted, mediaGranted, isAnalyzing, handlers,
          selectedAllergenIds, isLoading, loading, store, writeQueue,
          history, responseText, parsed, looked, trace, caught, rethrown>>

\* ---------------------------------------------------------- Scanner screen
NoOutcome == [result |-> NoResult, error |-> NoError]

\* A handler that has not been started
IdleHandler ==
  [kind |-> "none", pc |-> "idle", cap |-> FALSE, ids |-> << >>,
   media |-> FALSE, input |-> NoInput, reached |-> FALSE, called |-> FALSE,
   mimeType |-> "none", request |-> NoRequest, api |-> "none", timer |-> "none",
   outcome |-> NoOutcome, procDialogs |-> 0, handlerDialogs |-> 0,
   permDialogs |-> 0, navs |-> 0, timerFirst |-> FALSE,
   lateResponse |-> FALSE, lateTimer |-> FALSE, readFailed |-> FALSE]

H == 1..MaxPresses

\* the catch clause of handleCapture / handlePickImage: a dialog for an
\* Error that is not an AnalysisError
HandlerCatch(r, error) ==
  [r EXCEPT !.pc = "done",
            !.handlerDialogs =
               IF error.type = "Error" THEN @ + 1 ELSE @]

\* ProcessEnd with the caught error thrown on to the press handler
ProcessEndRethrow(r, outcome) ==
  LET e == [r EXCEPT !.pc = "done", !.outcome = outcome, !.input = NoInput,
                     !.mimeType = "none"]
  IN IF outcome.error = NoError
     THEN [e EXCEPT !.navs = @ + 1]
     ELSE [e EXCEPT !.procDialogs = @ + 1,
                    !.handlerDialogs =
                       IF outcome.error.type = "Error" THEN @ + 1 ELSE @]

\* processImageForAnalysis from the end of analyzeLabel: navigate with the
\* result, or the catch clause's dialog; finally setIsAnalyzing(false).
\* Nothing is rethrown to the press handler.
ProcessEnd(r, outcome) ==
  LET e == [r EXCEPT !.pc = "done", !.outcome = outcome, !.input = NoInput,
                     !.mimeType = "none"]
  IN IF outcome.error = NoError
     THEN [e EXCEPT !.navs = @ + 1]
     ELSE [e EXCEPT !.procDialogs = @ + 1]

\* analyzeLabel from the image data on: without a key it throws, with one it
\* sets the timer, sends the request and awaits the race
AnalyzeIssue(r, data, mimeType) ==
  LET q == PrepareRequest(data, mimeType, r.ids, keySet)
  IN IF q.error # NoError
     THEN ProcessEnd(r, [result |-> NoResult, error |-> q.error])
     ELSE [r EXCEPT !.pc = "race", !.mimeType = mimeType,
                    !.request = q.request,
                    !.api = "pending", !.timer = "armed"]

\* analyzeLabel(imageInput, selectedAllergenIds) up to its first await
AnalyzeStart(r, imageInput) ==
  LET c == ConvertImage(imageInput)
  IN IF c.await
     THEN [r EXCEPT !.pc = "read", !.input = imageInput, !.called = TRUE,
                    !.mimeType = c.mimeType]
     ELSE AnalyzeIssue([r EXCEPT !.input = imageInput, !.called = TRUE],
                       c.data, c.mimeType)

\* processImageForAnalysis up to its first await: the guard on the captured
\* isAnalyzing, setIsAnalyzing(true), then the resize or the analysis
ProcessStart(r, imageInput) ==
  IF r.cap
  THEN [r EXCEPT !.pc = "done"]
  ELSE IF build = "resize"
  THEN [r EXCEPT !.pc = "resize", !.input = imageInput, !.reached = TRUE]
  ELSE AnalyzeStart([r EXCEPT !.reached = TRUE], imageInput)

\* AnalyzingAfter without the finally clause's setIsAnalyzing(false)
AnalyzingAfterNoFinally(r) ==
  IF r.reached THEN TRUE ELSE isAnalyzing

\* isAnalyzing after a step of a handler that is inside
\* processImageForAnalysis: true while it awaits, false after its finally
AnalyzingAfter(r) ==
  IF r.reached THEN r.pc # "done" ELSE isAnalyzing

\* a handler that has ended keeps what it showed and returned; which button
\* started it and the permission it saw at the press play no part any more
Finished(r) ==
  IF r.pc = "done" THEN [r EXCEPT !.kind = "none", !.media = FALSE] ELSE r

\* the requests sent to the model and not yet answered
Sent ==
  {[h |-> h, request |-> handlers[h].request] :
     h \in {x \in H : handlers[x].request # NoRequest}}

\* what the image picker and the camera hand back
PickerImages ==
  {FileUriOf([fmt |-> "jpeg", resized |-> FALSE]),
   FileUriOf([fmt |-> "png", resized |-> FALSE]),
   DataUriOf([fmt |-> "png", resized |-> FALSE], "image/png")}

PickerResults ==
  {[kind |-> "canceled", input |-> NoInput],
   [kind |-> "nouri", input |-> NoInput]} \cup
  {[kind |-> "uri", input |-> i] : i \in PickerImages}

CameraResults == {"reject", "nouri", "base64", "uri"}

Photo == [fmt |-> "jpeg", resized |-> FALSE]

\* the number of the next handler to start
NextHandler ==
  CHOOSE h \in H : /\ handlers[h].pc = "idle"
                   /\ \A x \in H : handlers[x].pc = "idle" => h <= x

\* A press of the Capture button (shown with camera permission, disabled
\* while isAnalyzing): handleCapture up to takePictureAsync
PressCapture ==
  /\ \E x \in H : handlers[x].pc = "idle"
  /\ ~isAnalyzing
  /\ cameraGranted
  /\ handlers' = [handlers EXCEPT ![NextHandler] =
       [IdleHandler EXCEPT !.kind = "capture", !.cap = isAnalyzing,
                           !.ids = selectedAllergenIds,
                           !.media = mediaGranted,
                           !.pc = IF isAnalyzing THEN "done" ELSE "camera"]]
  /\ UNCHANGED <<build, keySet, cameraGranted, mediaGranted, isAnalyzing>>
  /\ UNCHANGED <<profileVars, parseVars, lookupVars, catchVars>>

\* A press of the Gallery button (disabled while isAnalyzing):
\* handlePickImage up to the permission request or the picker
PressGallery ==
  /\ \E x \in H : handlers[x].pc = "idle"
  /\ ~isAnalyzing
  /\ handlers' = [handlers EXCEPT ![NextHandler] =
       [IdleHandler EXCEPT !.kind = "gallery", !.cap = isAnalyzing,
                           !.ids = selectedAllergenIds,
                           !.media = mediaGranted,
                           !.pc = IF isAnalyzing THEN "done"
                                  ELSE IF ~mediaGranted THEN "perm"
                                  ELSE "picker"]]
  /\ UNCHANGED <<build, keySet, cameraGranted, mediaGranted, isAnalyzing>>
  /\ UNCHANGED <<profileVars, parseVars, lookupVars, catchVars>>

\* requestMediaLibraryPermission() answers
PermissionResult(h, granted) ==
  /\ handlers[h].pc = "perm"
  /\ handlers' = [handlers EXCEPT ![h] =
       IF granted THEN [@ EXCEPT !.pc = "picker"]
       ELSE Finished([@ EXCEPT !.pc = "done", !.permDialogs = @ + 1])]
  /\ mediaGranted' = (mediaGranted \/ granted)
  /\ UNCHANGED <<build, keySet, cameraGranted, isAnalyzing>>
  /\ UNCHANGED <<profileVars, parseVars, lookupVars, catchVars>>

\* launchImageLibraryAsync() answers: cancelled, an asset without uri, or
\* the uri of the chosen image
PickerResult(h, res) ==
  /\ handlers[h].pc = "picker"
  /\ LET r == handlers[h]
         r2 == IF res.kind = "canceled" THEN [r EXCEPT !.pc = "done"]
               ELSE IF res.kind = "nouri"
               THEN HandlerCatch(r, PlainError({}))
               ELSE ProcessStart(r, res.input)
     IN /\ handlers' = [handlers EXCEPT ![h] = Finished(r2)]
        /\ isAnalyzing' = AnalyzingAfter(r2)
  /\ UNCHANGED <<build, keySet, cameraGranted, mediaGranted>>
  /\ UNCHANGED <<profileVars, parseVars, lookupVars, catchVars>>

\* takePictureAsync() answers: a rejection, a photo without uri, or a photo
\* with or without its base64 text.  The direct build passes
\* photo.base64 || photo.uri, the resize build photo.uri.
CameraResult(h, res) ==
  /\ handlers[h].pc = "camera"
  /\ LET r == handlers[h]
         r2 == IF res \in {"reject", "nouri"}
               THEN HandlerCatch(r, PlainError({}))
               ELSE IF build = "direct" /\ res = "base64"
               THEN ProcessStart(r, Base64Of(Photo))
               ELSE ProcessStart(r, FileUriOf(Photo))
     IN /\ handlers' = [handlers EXCEPT ![h] = Finished(r2)]
        /\ isAnalyzing' = AnalyzingAfter(r2)
  /\ UNCHANGED <<build, keySet, cameraGranted, mediaGranted>>
  /\ UNCHANGED <<profileVars, parseVars, lookupVars, catchVars>>

\* resizeImageForAnalysis() answers: the resized JPEG as base64, which the
\* screen wraps into a data URI, or an Error('Failed to resize image: ...')
ResizeDone(h, ok) ==
  /\ handlers[h].pc = "resize"
  /\ LET r == handlers[h]
         resized == [fmt |-> "jpeg", resized |-> TRUE]
         r2 == IF ok
               THEN AnalyzeStart(r, DataUriOf(resized, "image/jpeg"))
               ELSE ProcessEnd(r, [result |-> NoResult,
                                   error |-> PlainError({"image"})])
     IN /\ handlers' = [handlers EXCEPT ![h] = Finished(r2)]
        /\ isAnalyzing' = AnalyzingAfter(r2)
  /\ UNCHANGED <<build, keySet, cameraGranted, mediaGranted>>
  /\ UNCHANGED <<profileVars, parseVars, lookupVars, catchVars>>

\* imageUriToBase64() answers inside analyzeLabel
ReadDone(h, outcome) ==
  /\ handlers[h].pc = "read"
  /\ outcome \in ReadOutcomes(handlers[h].input)
  /\ LET r == handlers[h]
         f == imageUriToBase64(r.input, outcome)
         r2 == IF f.error # NoError
               THEN ProcessEnd([r EXCEPT !.readFailed = TRUE],
                               [result |-> NoResult,
                                error |-> MapError(f.error)])
               ELSE AnalyzeIssue(r, f.data, r.mimeType)
     IN /\ handlers' = [handlers EXCEPT ![h] = Finished(r2)]
        /\ isAnalyzing' = AnalyzingAfter(r2)
  /\ UNCHANGED <<build, keySet, cameraGranted, mediaGranted>>
  /\ UNCHANGED <<profileVars, parseVars, lookupVars, catchVars>>

\* RaceDeliver with every settled promise resuming analyzeLabel
RaceDeliverEvery(r, kind, text, error) ==
  ProcessEnd(r, SettleWith(kind, text, error))

\* Promise.race([apiPromise, timeoutPromise]): the first promise to settle
\* resumes analyzeLabel; a promise that settles after that resumes nothing
RaceDeliver(r, kind, text, error) ==
  IF r.pc = "race"
  THEN ProcessEnd(r, SettleWith(kind, text, error))
  ELSE r

\* the response texts and the failures of generateContent the scans meet
PlainText(body, hints) ==
  [padded |-> FALSE, fence |-> "none", body |-> body, hints |-> hints,
   len |-> FallbackPrefixLen]

ScanResponses ==
  {[PlainText([kind |-> "object", status |-> "safe", allergens |-> "strs",
               pal |-> "strs", explanation |-> "str"], {})
      EXCEPT !.fence = "json"],
   PlainText([kind |-> "object", status |-> "SAFE", allergens |-> "strs",
              pal |-> "strs", explanation |-> "str"], {}),
   PlainText(NonObject("invalid"), {"blurry"})}

ApiFailures == {PlainError({"429"}), NonError}

\* the model's response arrives
ApiRespond(h, text) ==
  /\ handlers[h].api = "pending"
  /\ LET r == handlers[h]
         r2 == [RaceDeliver(r, "response", text, NoError)
                  EXCEPT !.api = "done", !.request = NoRequest,
                         !.lateResponse = (r.timer = "fired")]
     IN /\ handlers' = [handlers EXCEPT ![h] = Finished(r2)]
        /\ isAnalyzing' = IF r.pc = "race" THEN FALSE ELSE isAnalyzing
  /\ UNCHANGED <<build, keySet, cameraGranted, mediaGranted>>
  /\ UNCHANGED <<profileVars, parseVars, lookupVars, catchVars>>

\* generateContent rejects
ApiFail(h, error) ==
  /\ handlers[h].api = "pending"
  /\ LET r == handlers[h]
         r2 == [RaceDeliver(r, "reject", PlainText(NonObject("invalid"), {}),
                            error)
                  EXCEPT !.api = "done", !.request = NoRequest]
     IN /\ handlers' = [handlers EXCEPT ![h] = Finished(r2)]
        /\ isAnalyzing' = IF r.pc = "race" THEN FALSE ELSE isAnalyzing
  /\ UNCHANGED <<build, keySet, cameraGranted, mediaGranted>>
  /\ UNCHANGED <<profileVars, parseVars, lookupVars, catchVars>>

\* TimerFire with the callback ending the screen's analysis whenever it runs
TimerFireResets(h) ==
  /\ handlers[h].timer = "armed"
  /\ LET r == handlers[h]
         r2 == [RaceDeliver(r, "reject", PlainText(NonObject("invalid"), {}),
                            AnalysisError("API_TIMEOUT"))
                  EXCEPT !.timer = "fired",
                         !.timerFirst = (r.api = "pending"),
                         !.lateTimer = (r.api = "done")]
     IN /\ handlers' = [handlers EXCEPT ![h] = Finished(r2)]
        /\ isAnalyzing' = FALSE
  /\ UNCHANGED <<build, keySet, cameraGranted, mediaGranted>>
  /\ UNCHANGED <<profileVars, parseVars, lookupVars, catchVars>>

\* the setTimeout callback runs: reject(AnalysisError('API request timed
\* out', 'API_TIMEOUT'))
TimerFire(h) ==
  /\ handlers[h].timer = "armed"
  /\ LET r == handlers[h]
         r2 == [RaceDeliver(r, "reject", PlainText(NonObject("invalid"), {}),
                            AnalysisError("API_TIMEOUT"))
                  EXCEPT !.timer = "fired",
                         !.timerFirst = (r.api = "pending"),
                         !.lateTimer = (r.api = "done")]
     IN /\ handlers' = [handlers EXCEPT ![h] = Finished(r2)]
        /\ isAnalyzing' = IF r.pc = "race" THEN FALSE ELSE isAnalyzing
  /\ UNCHANGED <<build, keySet, cameraGranted, mediaGranted>>
  /\ UNCHANGED <<profileVars, parseVars, lookupVars, catchVars>>

\* ------------------------------------------------------------ initial state
Selections == {<< >>, <<"peanuts", "milk">>}

\* what is known of the last reload: whether a storage operation has failed
\* since the provider before it was mounted, whether all writes had
\* completed at the reload, the selection before it, and how its load ended
NoHistory ==
  [failed |-> FALSE, reloaded |-> FALSE, completed |-> FALSE,
   clean |-> FALSE, before |-> << >>, done |-> FALSE, readOk |-> FALSE,
   after |-> << >>]

NoStore == [kind |-> "absent", ids |-> << >>]

\* what the calls on the provider have done: whether the store was empty at
\* the first start, whether setSelectedAllergenIds was ever called, whether
\* a write ever failed; since the last mount, whether the user has toggled
\* and whether the load replaced a toggled selection; how the write that
\* completed in the last step ended for its caller, and how the loadProfile
\* call ended
NoTrace ==
  [emptyStart |-> FALSE, setCalled |-> FALSE, writeFailed |-> FALSE,
   toggled |-> FALSE, overwrote |-> FALSE, lastWrite |-> "none",
   loadResult |-> "none"]

ProfileIdle ==
  /\ selectedAllergenIds \in Selections
  /\ isLoading = FALSE
  /\ loading = FALSE
  /\ store = NoStore
  /\ writeQueue = << >>
  /\ history = NoHistory
  /\ trace = NoTrace

NotParsed == [done |-> FALSE, result |-> NoResult, error |-> NoError]

ParseIdle ==
  /\ responseText = PlainText(NonObject("invalid"), {})
  /\ parsed = NotParsed

\* no lookup has been made
NoLookup == [id |-> "none", out |-> "none"]
LookupIdle == looked = [entry |-> NoLookup, label |-> NoLookup, icon |-> NoLookup]

\* nothing has been caught
CatchIdle == caught = NoError /\ rethrown = NoError

\* The Scanner screen is mounted with the profile loaded: no handler runs,
\* the photo library permission has not been asked for yet
Init ==
  /\ build \in {"resize", "direct"}
  /\ keySet \in BOOLEAN
  /\ cameraGranted \in BOOLEAN
  /\ mediaGranted = FALSE
  /\ isAnalyzing = FALSE
  /\ handlers = [h \in H |-> IdleHandler]
  /\ ProfileIdle
  /\ ParseIdle
  /\ LookupIdle
  /\ CatchIdle

ScannerIdle ==
  /\ build = "resize"
  /\ keySet = TRUE
  /\ cameraGranted = FALSE
  /\ mediaGranted = FALSE
  /\ isAnalyzing = FALSE
  /\ handlers = [h \in H |-> IdleHandler]

Next ==
  \/ PressCapture
  \/ PressGallery
  \/ \E h \in H, granted \in BOOLEAN : PermissionResult(h, granted)
  \/ \E h \in H, res \in PickerResults : PickerResult(h, res)
  \/ \E h \in H, res \in CameraResults : CameraResult(h, res)
  \/ \E h \in H, ok \in BOOLEAN : ResizeDone(h, ok)
  \/ \E h \in H, outcome \in {"ok", "read_error", "too_large"} :
        ReadDone(h, outcome)
  \/ \E h \in H, text \in ScanResponses : ApiRespond(h, text)
  \/ \E h \in H, error \in ApiFailures : ApiFail(h, error)
  \/ \E h \in H : TimerFire(h)

Spec == Init /\ [][Next]_vars

\* Scheduling: the image manipulator, the file system and the timer always
\* come back; the network may never answer
Fairness ==
  \A h \in H :
     /\ WF_vars(\E ok \in BOOLEAN : ResizeDone(h, ok))
     /\ WF_vars(\E outcome \in {"ok", "read_error", "too_large"} :
                   ReadDone(h, outcome))
     /\ WF_vars(TimerFire(h))

SpecFair == Init /\ [][Next]_vars /\ Fairness

\* the analyzeLabel calls in flight: called and not yet returned or thrown
InFlight == {h \in H : handlers[h].pc \in {"read", "race"}}

\* ---------------------------------------------------- response parsing
\* analyzeLabel's step 7 on every response text: the text is drawn at the
\* start and parsed once
InitParse ==
  /\ responseText \in ResponseTexts
  /\ parsed = NotParsed
  /\ ScannerIdle
  /\ ProfileIdle
  /\ selectedAllergenIds = << >>
  /\ LookupIdle
  /\ CatchIdle

ParseResponse ==
  /\ ~parsed.done
  /\ LET o == SettleWith("response", responseText, NoError)
     IN parsed' = [done |-> TRUE, result |-> o.result, error |-> o.error]
  /\ UNCHANGED <<responseText, scannerVars, profileVars, lookupVars, catchVars>>

NextParse == ParseResponse

SpecParse == InitParse /\ [][NextParse]_vars

\* ------------------------------------------------------- allergy profile
\* The stored item under ALLERGY_PROFILE_STORAGE_KEY: absent, the JSON text
\* of a profile, or text that JSON.parse rejects
StoredProfile(ids) == [kind |-> "profile", ids |-> ids]
CorruptStore == [kind |-> "corrupt", ids |-> << >>]

\* JsonRoundTrip with every id read back twice
JsonRoundTripTwice(ids) == ids \o ids

\* JSON.stringify(profile) followed by JSON.parse on reload: the list of ids
\* of the profile that was written
JsonRoundTrip(ids) == [i \in 1..Len(ids) |-> ids[i]]

ToggleIds == {"milk", "eggs"}
SetChoices == {<< >>, <<"eggs">>, <<"eggs", "eggs">>}

\* prev.includes(id) ? prev.filter((allergenId) => allergenId !== id)
\*                   : [...prev, id]
RECURSIVE Filter(_, _)
Filter(prev, id) ==
  IF prev = << >> THEN << >>
  ELSE IF Head(prev) = id THEN Filter(Tail(prev), id)
  ELSE <<Head(prev)>> \o Filter(Tail(prev), id)

\* ToggleList with the new id put in front
ToggleListFront(prev, id) ==
  IF id \in Range(prev) THEN Filter(prev, id) ELSE <<id>> \o prev

ToggleList(prev, id) ==
  IF id \in Range(prev) THEN Filter(prev, id) ELSE Append(prev, id)

\* ProfileWrite with an empty profile written whatever the selection is
ProfileWriteEmpty(ids, origin) ==
  [key |-> ALLERGY_PROFILE_STORAGE_KEY, ids |-> << >>, origin |-> origin]

\* AsyncStorage.setItem(ALLERGY_PROFILE_STORAGE_KEY, JSON.stringify(profile))
\* with profile = { selectedAllergenIds: ids }, issued by an auto-save
\* ("auto") or by saveProfile ("save")
ProfileWrite(ids, origin) ==
  [key |-> ALLERGY_PROFILE_STORAGE_KEY, ids |-> ids, origin |-> origin]

\* WriteOutcome with saveProfile's catch clause logging only
WriteOutcomeSwallow(origin, ok) ==
  IF ok THEN "resolved" ELSE "logged"

\* how a completed setItem ends for the caller: the auto-saves attach a
\* .catch that logs; saveProfile's catch clause logs and rethrows
WriteOutcome(origin, ok) ==
  IF ok THEN "resolved"
  ELSE IF origin = "save" THEN "rethrown"
  ELSE "logged"

\* what is kept of the last reload once the user acts again: whether there
\* was one, and whether a storage operation has failed since
AfterUserCall(hist) ==
  [NoHistory EXCEPT !.failed = hist.failed, !.reloaded = hist.reloaded]

\* LoadedSelection with the stored profile ignored
LoadedSelectionStale(stored, current, readOk) ==
  IF ~readOk \/ stored.kind = "corrupt"
  THEN [threw |-> TRUE, ids |-> << >>]
  ELSE [threw |-> FALSE, ids |-> current]

\* the body of loadProfile's try and catch: the selection after a load.
\* getItem rejecting or JSON.parse throwing gives []; no stored item leaves
\* the selection as it is; a profile gives its selectedAllergenIds.
LoadedSelection(stored, current, readOk) ==
  IF ~readOk \/ stored.kind = "corrupt"
  THEN [threw |-> TRUE, ids |-> << >>]
  ELSE IF stored.kind = "profile"
  THEN [threw |-> FALSE, ids |-> JsonRoundTrip(stored.ids)]
  ELSE [threw |-> FALSE, ids |-> current]

\* IsLoadingAfterLoad with setIsLoading(false) at the end of the try block
IsLoadingAfterLoadTry(threw) == threw

\* isLoading when loadProfile ends: setIsLoading(false) is in the finally
\* clause, so it runs whether the try block threw or not
IsLoadingAfterLoad(threw) == FALSE

\* The provider has just been mounted: useState([]), useState(true), and the
\* mount effect has called loadProfile, which awaits getItem
InitProfile ==
  /\ selectedAllergenIds = << >>
  /\ isLoading = TRUE
  /\ loading = TRUE
  /\ store \in {NoStore, CorruptStore, StoredProfile(<<"milk">>)}
  /\ writeQueue = << >>
  /\ history = NoHistory
  /\ trace = [NoTrace EXCEPT !.emptyStart = (store = NoStore),
                             !.loadResult = "pending"]
  /\ ScannerIdle
  /\ ParseIdle
  /\ LookupIdle
  /\ CatchIdle

\* LoadDone with the default selection written back after a failed load
LoadDoneWritesDefault(readOk) ==
  /\ loading
  /\ LET l == LoadedSelection(store, selectedAllergenIds, readOk)
     IN /\ selectedAllergenIds' = l.ids
        /\ history' = [history EXCEPT !.failed = @ \/ l.threw,
                                      !.done = TRUE,
                                      !.readOk = ~l.threw,
                                      !.after = l.ids]
        /\ trace' = [trace EXCEPT
                       !.overwrote = @ \/ (trace.toggled
                                             /\ l.ids # selectedAllergenIds),
                       !.lastWrite = "none",
                       !.loadResult = "resolved"]
        /\ isLoading' = IsLoadingAfterLoad(l.threw)
        /\ writeQueue' = IF l.threw /\ Len(writeQueue) < MaxWrites
                         THEN Append(writeQueue, ProfileWrite(l.ids, "auto"))
                         ELSE writeQueue
  /\ loading' = FALSE
  /\ UNCHANGED <<store, scannerVars, parseVars, lookupVars, catchVars>>

\* loadProfile resumes: getItem has answered with the stored item, or has
\* rejected; the catch clause rethrows nothing, so the call resolves;
\* finally setIsLoading(false)
LoadDone(readOk) ==
  /\ loading
  /\ LET l == LoadedSelection(store, selectedAllergenIds, readOk)
     IN /\ selectedAllergenIds' = l.ids
        /\ history' = [history EXCEPT !.failed = @ \/ l.threw,
                                      !.done = TRUE,
                                      !.readOk = ~l.threw,
                                      !.after = l.ids]
        /\ trace' = [trace EXCEPT
                       !.overwrote = @ \/ (trace.toggled
                                             /\ l.ids # selectedAllergenIds),
                       !.lastWrite = "none",
                       !.loadResult = "resolved"]
        /\ isLoading' = IsLoadingAfterLoad(l.threw)
  /\ loading' = FALSE
  /\ UNCHANGED <<store, writeQueue, scannerVars, parseVars, lookupVars, catchVars>>

\* ToggleAllergen with the allergen buttons shown while the profile loads
ToggleAllergenUngated(id) ==
  /\ Len(writeQueue) < MaxWrites
  /\ LET newIds == ToggleList(selectedAllergenIds, id)
     IN /\ selectedAllergenIds' = newIds
        /\ writeQueue' = Append(writeQueue, ProfileWrite(newIds, "auto"))
  /\ trace' = [trace EXCEPT !.toggled = TRUE, !.lastWrite = "none"]
  /\ history' = AfterUserCall(history)
  /\ UNCHANGED <<isLoading, loading, store, scannerVars, parseVars,
                 lookupVars, catchVars>>

\* toggleAllergen(id), pressed on the setup screen, which shows its list
\* only when isLoading is false: the new list, and its setItem call
ToggleAllergen(id) ==
  /\ ~isLoading
  /\ Len(writeQueue) < MaxWrites
  /\ LET newIds == ToggleList(selectedAllergenIds, id)
     IN /\ selectedAllergenIds' = newIds
        /\ writeQueue' = Append(writeQueue, ProfileWrite(newIds, "auto"))
  /\ trace' = [trace EXCEPT !.toggled = TRUE, !.lastWrite = "none"]
  /\ history' = AfterUserCall(history)
  /\ UNCHANGED <<isLoading, loading, store, scannerVars, parseVars,
                 lookupVars, catchVars>>

\* setSelectedAllergenIds(ids), called by a screen of the loaded provider
SetSelectedAllergenIds(ids) ==
  /\ ~isLoading
  /\ Len(writeQueue) < MaxWrites
  /\ selectedAllergenIds' = ids
  /\ writeQueue' = Append(writeQueue, ProfileWrite(ids, "auto"))
  /\ trace' = [trace EXCEPT !.setCalled = TRUE, !.lastWrite = "none"]
  /\ history' = AfterUserCall(history)
  /\ UNCHANGED <<isLoading, loading, store, scannerVars, parseVars,
                 lookupVars, catchVars>>

\* saveProfile(), called by a screen of the loaded provider: one setItem of
\* the selection of the render the callback belongs to, awaited
SaveProfile ==
  /\ ~isLoading
  /\ Len(writeQueue) < MaxWrites
  /\ writeQueue' = Append(writeQueue,
                          ProfileWrite(selectedAllergenIds, "save"))
  /\ trace' = [trace EXCEPT !.lastWrite = "none"]
  /\ history' = AfterUserCall(history)
  /\ UNCHANGED <<selectedAllergenIds, isLoading, loading, store,
                 scannerVars, parseVars, lookupVars, catchVars>>

\* the oldest setItem call completes: the item is stored, or the promise
\* rejects; the error is logged, and saveProfile throws it on
WriteDone(ok) ==
  /\ writeQueue # << >>
  /\ LET w == Head(writeQueue)
     IN /\ store' = IF ok /\ w.key = ALLERGY_PROFILE_STORAGE_KEY
                    THEN StoredProfile(w.ids) ELSE store
        /\ trace' = [trace EXCEPT !.writeFailed = @ \/ ~ok,
                                  !.lastWrite = WriteOutcome(w.origin, ok)]
  /\ writeQueue' = Tail(writeQueue)
  /\ history' = [history EXCEPT !.failed = @ \/ ~ok]
  /\ UNCHANGED <<selectedAllergenIds, isLoading, loading, scannerVars,
                 parseVars, lookupVars, catchVars>>

\* the app is reloaded: a fresh provider is mounted and runs loadProfile.
\* Of the writes still pending when the old app stops, some prefix has
\* reached the storage with or without success; none outlives the old app.
Reload ==
  /\ ~loading
  /\ store' \in {store} \cup
                {StoredProfile(writeQueue[i].ids) : i \in DOMAIN writeQueue}
  /\ writeQueue' = << >>
  /\ selectedAllergenIds' = << >>
  /\ isLoading' = TRUE
  /\ loading' = TRUE
  /\ history' = [failed |-> FALSE, reloaded |-> TRUE,
                 completed |-> (writeQueue = << >>),
                 clean |-> (writeQueue = << >> /\ ~history.failed),
                 before |-> selectedAllergenIds, done |-> FALSE,
                 readOk |-> FALSE, after |-> << >>]
  /\ trace' = [trace EXCEPT !.toggled = FALSE, !.overwrote = FALSE,
                            !.lastWrite = "none", !.loadResult = "pending"]
  /\ UNCHANGED <<scannerVars, parseVars, lookupVars, catchVars>>

NextProfile ==
  \/ \E readOk \in BOOLEAN : LoadDone(readOk)
  \/ \E id \in ToggleIds : ToggleAllergen(id)
  \/ \E ids \in SetChoices : SetSelectedAllergenIds(ids)
  \/ SaveProfile
  \/ \E ok \in BOOLEAN : WriteDone(ok)
  \/ Reload

SpecProfile == InitProfile /\ [][NextProfile]_vars

\* Scheduling: the storage read of loadProfile always comes back
SpecProfileFair ==
  SpecProfile /\ WF_vars(\E readOk \in BOOLEAN : LoadDone(readOk))

\* ------------------------------------------------------- allergen tables
\* The lookups of constants/allergens.ts, applied to each of the 14 ids and
\* to a string that is none of them
LookupIds == AllergenId \cup {"kiwi"}

InitLookup ==
  /\ LookupIdle
  /\ CatchIdle
  /\ ScannerIdle
  /\ ProfileIdle
  /\ selectedAllergenIds = << >>
  /\ ParseIdle

LookupById(id) ==
  /\ looked' = [looked EXCEPT !.entry = [id |-> id, out |-> getAllergenById(id)]]
  /\ UNCHANGED <<scannerVars, profileVars, parseVars, catchVars>>

LookupLabel(id) ==
  /\ looked' = [looked EXCEPT !.label = [id |-> id, out |-> getAllergenLabel(id)]]
  /\ UNCHANGED <<scannerVars, profileVars, parseVars, catchVars>>

LookupIcon(id) ==
  /\ looked' = [looked EXCEPT !.icon = [id |-> id, out |-> getAllergenIcon(id)]]
  /\ UNCHANGED <<scannerVars, profileVars, parseVars, catchVars>>

NextLookup ==
  \/ \E id \in LookupIds : LookupById(id)
  \/ \E id \in LookupIds : LookupLabel(id)
  \/ \E id \in LookupIds : LookupIcon(id)

SpecLookup == InitLookup /\ [][NextLookup]_vars

\* ------------------------------------------------------ the catch block
\* analyzeLabel's catch block on every kind of thrown value.  A message is
\* made of a few words: the patterns the catch block looks for and one word
\* it does not look for.
MessageWords ==
  {"EXPO_PUBLIC_GEMINI_API_KEY", "API key", "apiKey", "timeout", "TIMEOUT",
   "429", "Resource exhausted", "rate limit", "quota", "API", "401", "403",
   "image", "blurry", "read", "overloaded"}

\* the patterns that occur in a message made of the words ws: a word holds
\* the patterns that are substrings of it ("API" is one of
\* "EXPO_PUBLIC_GEMINI_API_KEY" and of "API key")
MessageOf(ws) ==
  ws \cup (IF ws \cap {"EXPO_PUBLIC_GEMINI_API_KEY", "API key"} # {}
           THEN {"API"} ELSE {})

CaughtValues ==
  {AnalysisError(c) : c \in ErrorCodes} \cup {NonError} \cup
  {PlainError(MessageOf(ws)) :
     ws \in {x \in SUBSET MessageWords : Cardinality(x) <= MaxWords}}

InitCatch ==
  /\ caught \in CaughtValues
  /\ rethrown = NoError
  /\ ScannerIdle
  /\ ProfileIdle
  /\ selectedAllergenIds = << >>
  /\ ParseIdle
  /\ LookupIdle

\* CatchError with the rate-limit patterns looked for ahead of the timeout
\* patterns
CatchErrorQuotaFirst ==
  /\ rethrown = NoError
  /\ rethrown' =
       IF /\ caught.type = "Error"
          /\ caught.msg \cap {"EXPO_PUBLIC_GEMINI_API_KEY", "API key",
                              "apiKey"} = {}
          /\ caught.msg \cap {"429", "Resource exhausted", "rate limit",
                              "quota"} # {}
       THEN AnalysisError("API_ERROR")
       ELSE MapError(caught)
  /\ UNCHANGED <<caught, scannerVars, profileVars, parseVars, lookupVars>>

\* the catch block runs on the caught value and throws
CatchError ==
  /\ rethrown = NoError
  /\ rethrown' = MapError(caught)
  /\ UNCHANGED <<caught, scannerVars, profileVars, parseVars, lookupVars>>

NextCatch == CatchError

SpecCatch == InitCatch /\ [][NextCatch]_vars

\* ------------------------------------------------------------------ claims
\* The text is JSON (inside optional whitespace and fence) whose value is an
\* object with status 'safe', 'caution' or 'unsafe'
HasValidStatus(text) ==
  /\ text.body.kind = "object"
  /\ text.body.status \in {"safe", "caution", "unsafe"}

IsFallbackResult(o, text) ==
  /\ o.error = NoError
  /\ o.result.status = "caution"
  /\ o.result.allergens = "empty"
  /\ o.result.pal = "empty"
  /\ o.result.explanation.kind = "fallback"
  /\ o.result.explanation.len <= FallbackPrefixLen
  /\ o.result.explanation.len <= text.len

\* C4: a response text that is not JSON with a valid status either makes
\* parseGeminiResponse throw AnalysisError BLURRY_IMAGE or NO_INGREDIENTS, or
\* gives the fallback result: 'caution', no allergens, no pal, and an
\* explanation with at most the first 200 characters of the text; no other
\* error and no other verdict comes out.
C4_NonJsonFallback ==
  (parsed.done /\ ~HasValidStatus(responseText)) =>
     \/ /\ parsed.error.type = "AnalysisError"
        /\ parsed.error.code \in {"BLURRY_IMAGE", "NO_INGREDIENTS"}
        /\ parsed.result = NoResult
     \/ IsFallbackResult(parsed, responseText)

\* C4 witness: a text longer than 200 characters that is not JSON and names
\* no pattern has been parsed into the fallback result, cut to 200
C4_Witness ==
  /\ parsed.done
  /\ responseText.body.kind = "invalid"
  /\ responseText.hints = {}
  /\ responseText.len > FallbackPrefixLen
  /\ parsed.result.status = "caution"
  /\ parsed.result.explanation = [kind |-> "fallback", len |-> FallbackPrefixLen]

\* C7: every result analyzeLabel returns has a status among 'safe',
\* 'caution', 'unsafe', lists of strings as allergens and pal, and a string
\* as explanation.
C7_ResultConforms ==
  (parsed.done /\ parsed.error = NoError) =>
     /\ parsed.result.status \in {"safe", "caution", "unsafe"}
     /\ parsed.result.allergens \in {"strs", "empty"}
     /\ parsed.result.pal \in {"strs", "empty"}
     /\ parsed.result.explanation.kind \in {"str", "default", "fallback"}

C1_AtMostOneInFlight == Cardinality(InFlight) <= 1

\* C2: while analyzeLabel awaits the race, one network call and one timer
\* are outstanding; when the timer fires before the response, the call is
\* rejected with AnalysisError API_TIMEOUT, and the response that arrives
\* later produces no result and no navigation for that scan.
C2_TimeoutWins ==
  \A h \in H :
     /\ handlers[h].pc = "race" =>
           handlers[h].api = "pending" /\ handlers[h].timer = "armed"
     /\ handlers[h].timerFirst =>
           /\ handlers[h].pc = "done"
           /\ handlers[h].outcome =
                 [result |-> NoResult, error |-> AnalysisError("API_TIMEOUT")]
           /\ handlers[h].navs = 0

\* C2 witness: the timer fired first, and the response has arrived after it
C2_Witness ==
  \E h \in H :
     /\ handlers[h].timerFirst
     /\ handlers[h].lateResponse
     /\ handlers[h].api = "done"
     /\ handlers[h].outcome.error = AnalysisError("API_TIMEOUT")
     /\ handlers[h].navs = 0

\* C3: no request sent to the model depends on the selected allergens: with
\* any other selection the very same request would have been sent.
C3_RequestIndependentOfProfile ==
  \A m \in Sent : \A ids \in Selections :
     PrepareRequest(m.request.data, m.request.mimeType, ids, TRUE).request
        = m.request

\* C6: an error that leaves analyzeLabel is an AnalysisError with one of
\* the six codes.
C6_OnlyAnalysisError ==
  \A h \in H :
     (handlers[h].called /\ handlers[h].outcome.error # NoError) =>
        /\ handlers[h].outcome.error.type = "AnalysisError"
        /\ handlers[h].outcome.error.code \in ErrorCodes

\* C6 witness: generateContent rejected with a value that is not an Error,
\* and analyzeLabel threw AnalysisError UNKNOWN
C6_Witness ==
  \E h \in H :
     /\ handlers[h].called
     /\ handlers[h].api = "done"
     /\ handlers[h].outcome.error = AnalysisError("UNKNOWN")

\* C8: while analyzeLabel works on an image, either it waits for the file
\* behind a file URI or path to be read, or the data it has sent is the
\* base64 text of the image, without prefix: never a URI or path, and base64
\* text or a data URI is never taken for a file.
C8_NormalizedBase64 ==
  \A h \in H :
     (handlers[h].called /\ handlers[h].pc \in {"read", "race"}) =>
        \/ /\ handlers[h].pc = "read"
           /\ handlers[h].input.form \in {"fileUri", "path"}
        \/ /\ handlers[h].pc = "race"
           /\ handlers[h].request.data = Base64Of(handlers[h].input.img)

\* C9: a scan that entered processImageForAnalysis shows nothing while it
\* runs and ends either with one navigation and no dialog, or with exactly
\* one dialog of processImageForAnalysis, no navigation and no dialog of the
\* press handler.
C9_OneOutcome ==
  \A h \in H :
     handlers[h].reached =>
        IF handlers[h].pc # "done"
        THEN /\ handlers[h].navs = 0
             /\ handlers[h].procDialogs = 0
             /\ handlers[h].handlerDialogs = 0
        ELSE \/ /\ handlers[h].outcome.error = NoError
                /\ handlers[h].outcome.result # NoResult
                /\ handlers[h].navs = 1
                /\ handlers[h].procDialogs = 0
                /\ handlers[h].handlerDialogs = 0
             \/ /\ handlers[h].outcome.error # NoError
                /\ handlers[h].navs = 0
                /\ handlers[h].procDialogs = 1
                /\ handlers[h].handlerDialogs = 0

\* C9 witness: a scan failed with an Error that is not an AnalysisError (the
\* resize failed), with the one dialog
C9_Witness ==
  \E h \in H :
     /\ handlers[h].reached
     /\ handlers[h].pc = "done"
     /\ handlers[h].outcome.error.type = "Error"
     /\ handlers[h].procDialogs = 1
     /\ handlers[h].handlerDialogs = 0

\* C10 as stated: without the API key every analyzeLabel call fails with
\* AnalysisError API_ERROR, and no request is sent.
C10_NoKeyApiError ==
  ~keySet =>
     \A h \in H :
        /\ handlers[h].request = NoRequest
        /\ handlers[h].api = "none"
        /\ (handlers[h].called /\ handlers[h].pc = "done") =>
              handlers[h].outcome.error = AnalysisError("API_ERROR")

\* C10 amended: without the API key no request is sent and every
\* analyzeLabel call fails: with INVALID_IMAGE when reading the image file
\* failed, with API_ERROR otherwise.
C10_NoKeyFails ==
  ~keySet =>
     \A h \in H :
        /\ handlers[h].request = NoRequest
        /\ handlers[h].api = "none"
        /\ handlers[h].pc # "race"
        /\ (handlers[h].called /\ handlers[h].pc = "done") =>
              handlers[h].outcome.error =
                 IF handlers[h].readFailed
                 THEN AnalysisError("INVALID_IMAGE")
                 ELSE AnalysisError("API_ERROR")

\* C10 witness: without the key, a call on an image that needed no file
\* read, or whose file was read, has failed with API_ERROR
C10_Witness ==
  /\ ~keySet
  /\ \E h \in H :
        /\ handlers[h].called
        /\ handlers[h].pc = "done"
        /\ ~handlers[h].readFailed
        /\ handlers[h].outcome.error = AnalysisError("API_ERROR")

\* C11: EU_ALLERGENS has exactly 14 entries with pairwise distinct ids, one
\* for each AllergenId, and for each of the 14 ids getAllergenById returns
\* the entry of that id, getAllergenLabel its label and getAllergenIcon its
\* icon of ALLERGEN_ICONS, never the fallback.
C11_FourteenAllergens ==
  /\ Len(EU_ALLERGENS) = 14
  /\ Cardinality(AllergenId) = 14
  /\ \A i, j \in DOMAIN EU_ALLERGENS :
        EU_ALLERGENS[i].id = EU_ALLERGENS[j].id => i = j
  /\ {EU_ALLERGENS[i].id : i \in DOMAIN EU_ALLERGENS} = AllergenId
  /\ DOMAIN ALLERGEN_ICONS = AllergenId
  /\ looked.entry.id \in AllergenId =>
        /\ looked.entry.out # Undefined
        /\ looked.entry.out.id = looked.entry.id
        /\ \E i \in DOMAIN EU_ALLERGENS : EU_ALLERGENS[i] = looked.entry.out
  /\ looked.label.id \in AllergenId =>
        /\ looked.label.out # looked.label.id
        /\ \E i \in DOMAIN EU_ALLERGENS :
              EU_ALLERGENS[i] =
                 [id |-> looked.label.id, label |-> looked.label.out]
  /\ looked.icon.id \in AllergenId =>
        /\ looked.icon.out # "help-outline"
        /\ looked.icon.out = ALLERGEN_ICONS[looked.icon.id]

\* C11 witness: the first and the last entry and an icon have been looked up
C11_Witness ==
  /\ looked.entry = [id |-> "molluscs",
                     out |-> [id |-> "molluscs", label |-> "Molluscs"]]
  /\ looked.label =
        [id |-> "gluten",
         out |-> "Cereals containing gluten (wheat, rye, barley, oats)"]
  /\ looked.icon = [id |-> "sulphites", out |-> "science"]

\* C12: whenever isAnalyzing is true it eventually becomes false again, and
\* every scan that entered processImageForAnalysis eventually leaves it,
\* also when the network call never answers.
C12_AnalyzingEnds ==
  /\ isAnalyzing ~> ~isAnalyzing
  /\ \A h \in H :
        (handlers[h].reached /\ handlers[h].pc # "done")
           ~> (handlers[h].pc = "done")

\* C12 witness: a scan whose network call never answered has been ended by
\* the timer, and isAnalyzing is false again
C12_Witness ==
  /\ ~isAnalyzing
  /\ \E h \in H :
        /\ handlers[h].reached
        /\ handlers[h].pc = "done"
        /\ handlers[h].api = "pending"
        /\ handlers[h].timer = "fired"

\* C13: the timer of a call whose network call has already answered fires
\* without effect: isAnalyzing, every handler's result, dialogs and
\* navigations stay as they are; only the timer itself is marked as fired.
C13_LateTimerNoEffect ==
  [][\A h \in H :
       (/\ handlers[h].timer = "armed"
        /\ handlers[h].api = "done"
        /\ handlers'[h].timer = "fired")
       => /\ isAnalyzing' = isAnalyzing
          /\ handlers' = [handlers EXCEPT ![h].timer = "fired",
                                          ![h].lateTimer = TRUE]]_vars

\* C13 witness: the timer of a finished scan has fired while a later scan is
\* in flight, and isAnalyzing is still true
C13_Witness ==
  \E h, g \in H :
     /\ handlers[h].lateTimer
     /\ handlers[h].outcome.result # NoResult
     /\ handlers[h].navs = 1
     /\ handlers[h].procDialogs = 0
     /\ g \in InFlight
     /\ isAnalyzing

\* C14: a toggleAllergen(id) call removes id when it is selected and
\* appends it at the end when it is not; the other ids stay, in their order.
C14_ToggleSemantics ==
  [][\A id \in ToggleIds :
       ToggleAllergen(id) =>
          LET prev == selectedAllergenIds
              cur == selectedAllergenIds'
              others(list) == SelectSeq(list, LAMBDA x : x # id)
          IN /\ others(cur) = others(prev)
             /\ IF id \in Range(prev)
                THEN id \notin Range(cur)
                ELSE cur = Append(prev, id)]_vars

\* C14 witness: 'eggs' then 'milk' were toggled on and stored in that order,
\* then 'eggs' was toggled off and 'milk' stayed
C14_Witness ==
  /\ trace.emptyStart /\ ~trace.setCalled /\ ~history.reloaded
  /\ trace.toggled
  /\ store = StoredProfile(<<"eggs", "milk">>)
  /\ selectedAllergenIds = <<"milk">>

\* C15: starting from an empty store, with toggleAllergen calls and loads
\* only, the selection holds no id twice and only ids of the 14 allergens.
C15_NoDuplicates ==
  (trace.emptyStart /\ ~trace.setCalled) =>
     /\ \A i, j \in DOMAIN selectedAllergenIds :
           selectedAllergenIds[i] = selectedAllergenIds[j] => i = j
     /\ Range(selectedAllergenIds) \subseteq AllergenId

\* C15 witness: two toggled ids have been restored by the load of a reload
C15_Witness ==
  /\ trace.emptyStart /\ ~trace.setCalled
  /\ history.reloaded /\ history.done
  /\ selectedAllergenIds = <<"milk", "eggs">>

\* the stored list equals the selection; nothing stored counts as the empty
\* list
StoredEqualsSelection ==
  IF store.kind = "profile"
  THEN store.ids = selectedAllergenIds
  ELSE store.kind = "absent" /\ selectedAllergenIds = << >>

\* every toggleAllergen and setSelectedAllergenIds call issues one write of
\* exactly the new selection under the storage key
OneWritePerCall ==
  [][((\E id \in ToggleIds : ToggleAllergen(id))
        \/ (\E ids \in SetChoices : SetSelectedAllergenIds(ids)))
     => writeQueue' =
           Append(writeQueue, [key |-> "@yumsafe:allergy_profile",
                               ids |-> selectedAllergenIds',
                               origin |-> "auto"])]_vars

C17_FailedWrite ==
  [][WriteDone(FALSE) =>
       /\ selectedAllergenIds' = selectedAllergenIds
       /\ store' = store
       /\ trace'.lastWrite = IF Head(writeQueue).origin = "save"
                             THEN "rethrown" ELSE "logged"]_vars

\* C17 witness: the auto-save of a toggle has failed and then the write of
\* saveProfile: the selection holds 'milk', nothing is stored, and the last
\* failure was thrown to the caller
C17_Witness ==
  /\ trace.emptyStart /\ trace.toggled /\ trace.writeFailed
  /\ trace.lastWrite = "rethrown"
  /\ writeQueue = << >>
  /\ selectedAllergenIds = <<"milk">>
  /\ store = NoStore

\* C18: a loadProfile whose read or parse fails sets the selection to the
\* empty list whatever it was, resolves, and leaves the store and the
\* pending writes as they are.
C18_FailedLoad ==
  /\ [][(LoadDone(FALSE) \/ (store.kind = "corrupt" /\ LoadDone(TRUE)))
        => /\ selectedAllergenIds' = << >>
           /\ store' = store
           /\ writeQueue' = writeQueue
           /\ trace'.loadResult = "resolved"
           /\ ~history'.readOk]_vars
  /\ [](\A current \in SetChoices \cup {<< >>} :
          /\ LoadedSelection(store, current, FALSE).ids = << >>
          /\ store.kind = "corrupt" =>
                LoadedSelection(store, current, TRUE).ids = << >>)

\* C18 witness: the read of a stored profile has failed; the selection is
\* empty, the profile is still stored and nothing is being written
C18_Witness ==
  /\ history.done /\ ~history.readOk
  /\ trace.loadResult = "resolved"
  /\ selectedAllergenIds = << >>
  /\ store = StoredProfile(<<"milk">>)
  /\ writeQueue = << >>

\* C19: isLoading is true while loadProfile runs, false when it has ended,
\* however it ended, and it eventually becomes false.
C19_LoadingEnds ==
  /\ [](loading => isLoading)
  /\ [][(loading /\ ~loading') => ~isLoading']_vars
  /\ [](trace.loadResult = "resolved" => ~isLoading)
  /\ isLoading ~> ~isLoading

\* C19 witness: the load of a reload has failed and isLoading is false
C19_Witness ==
  /\ history.reloaded /\ history.done /\ ~history.readOk
  /\ ~loading
  /\ ~isLoading

\* C20: no toggleAllergen is issued while isLoading is true, and no load
\* has replaced a selection the user had toggled.
C20_LoadBeforeToggle ==
  /\ isLoading => (~trace.toggled /\ writeQueue = << >>)
  /\ ~trace.overwrote

\* C20 witness: the stored 'milk' was loaded at the start and 'eggs' was
\* toggled on after it
C20_Witness ==
  /\ ~history.reloaded /\ ~history.failed
  /\ trace.loadResult = "resolved"
  /\ ~trace.emptyStart /\ ~trace.setCalled
  /\ trace.toggled
  /\ ~isLoading
  /\ selectedAllergenIds = <<"milk", "eggs">>

\* C21: the prompt of every request sent to the model names the current
\* selection: with allergens selected it is "User's allergy profile"
\* followed by the English labels of the selected ids in selection order;
\* with none selected it says that the user has no selected allergens; and a
\* scan that has passed the key check awaits the model with such a request,
\* whatever the selection.
C21_PromptNamesSelection ==
  \A h \in H :
     LET r == handlers[h]
         n == Len(selectedAllergenIds)
         english == [i \in 1..n |->
                       (CHOOSE a \in Range(EU_ALLERGENS) :
                          a.id = selectedAllergenIds[i]).label]
     IN /\ (r.pc = "race") => (r.request # NoRequest)
        /\ (r.request # NoRequest) =>
              /\ n > 0 =>
                   /\ r.request.prompt.profile = "User's allergy profile"
                   /\ r.request.prompt.labels = english
              /\ n = 0 =>
                   /\ r.request.prompt.profile =
                        "User has no selected allergens (scanning for all allergens)"
                   /\ r.request.prompt.labels = << >>

\* C21 witness: with no allergen selected a scan is awaiting the model's
\* answer to a request whose prompt says so
C21_Witness ==
  /\ selectedAllergenIds = << >>
  /\ \E h \in H :
        /\ handlers[h].pc = "race"
        /\ handlers[h].api = "pending"
        /\ handlers[h].request.model = GEMINI_MODEL_NAME
        /\ handlers[h].request.prompt.profile =
             "User has no selected allergens (scanning for all allergens)"

\* the code of the error thrown for a caught Error whose message has the
\* patterns m, by the first group of patterns that occurs in it
FirstMatch(m) ==
  LET has(ps) == m \cap ps # {}
  IN CASE has({"EXPO_PUBLIC_GEMINI_API_KEY", "API key", "apiKey"})
            -> "API_ERROR"
       [] ~has({"EXPO_PUBLIC_GEMINI_API_KEY", "API key", "apiKey"})
          /\ has({"timeout", "TIMEOUT"})
            -> "API_TIMEOUT"
       [] ~has({"EXPO_PUBLIC_GEMINI_API_KEY", "API key", "apiKey",
                "timeout", "TIMEOUT"})
          /\ has({"429", "Resource exhausted", "rate limit", "quota"})
            -> "API_ERROR"
       [] ~has({"EXPO_PUBLIC_GEMINI_API_KEY", "API key", "apiKey",
                "timeout", "TIMEOUT", "429", "Resource exhausted",
                "rate limit", "quota"})
          /\ has({"API", "401", "403"})
            -> "API_ERROR"
       [] ~has({"EXPO_PUBLIC_GEMINI_API_KEY", "API key", "apiKey",
                "timeout", "TIMEOUT", "429", "Resource exhausted",
                "rate limit", "quota", "API", "401", "403"})
          /\ has({"image", "blurry", "read"})
            -> "BLURRY_IMAGE"
       [] OTHER -> "UNKNOWN"

\* a caught value that is not an AnalysisError leaves the catch block as an
\* AnalysisError with the code of the first matching group; a value that is
\* not an Error with UNKNOWN
MappedInOrder ==
  (rethrown # NoError /\ caught.type # "AnalysisError") =>
     /\ rethrown.type = "AnalysisError"
     /\ caught.type = "Error" => rethrown.code = FirstMatch(caught.msg)
     /\ caught.type = "other" => rethrown.code = "UNKNOWN"

\* C22 as stated: the order of the patterns, and in particular every error
\* whose message speaks of a timeout leaves as API_TIMEOUT and every one
\* whose message speaks of a quota, a rate limit, 401 or 403 as API_ERROR.
C22_MappedInOrder ==
  /\ MappedInOrder
  /\ (rethrown # NoError /\ caught.type = "Error") =>
        /\ caught.msg \cap {"timeout", "TIMEOUT"} # {}
              => rethrown.code = "API_TIMEOUT"
        /\ caught.msg \cap {"429", "Resource exhausted", "rate limit",
                            "quota", "401", "403"} # {}
              => rethrown.code = "API_ERROR"

\* C22 amended: the order of the patterns; a timeout message gives
\* API_TIMEOUT unless it mentions the API key, and a quota, rate-limit, 401
\* or 403 message gives API_ERROR unless it says 'timeout' or 'TIMEOUT'
\* and does not mention the API key.
C22_MappedInOrderFirstWins ==
  /\ MappedInOrder
  /\ (rethrown # NoError /\ caught.type = "Error") =>
        LET key == caught.msg \cap {"EXPO_PUBLIC_GEMINI_API_KEY", "API key",
                                    "apiKey"} # {}
            timeout == caught.msg \cap {"timeout", "TIMEOUT"} # {}
        IN /\ (timeout /\ ~key) => rethrown.code = "API_TIMEOUT"
           /\ (/\ caught.msg \cap {"429", "Resource exhausted", "rate limit",
                                   "quota", "401", "403"} # {}
               /\ (key \/ ~timeout))
                 => rethrown.code = "API_ERROR"

\* C22 witness: an Error whose message says both 'quota' and 'timeout' has
\* gone through the catch block and left as API_TIMEOUT
C22_Witness ==
  /\ caught = PlainError({"quota", "timeout"})
  /\ rethrown = AnalysisError("API_TIMEOUT")

\* C23: the patterns of the response text count only when the text is not
\* JSON with a valid status.  Such a text that says 'blurry', 'unclear' or
\* 'cannot read' in any spelling gives BLURRY_IMAGE, also when it says 'no
\* ingredients' as well; one that says only 'no ingredients' or
\* 'ingredients not found' gives NO_INGREDIENTS; a text that is JSON with a
\* valid status gives a result with that status whatever words it contains.
C23_PatternsAfterParse ==
  parsed.done =>
    LET words == responseText.hints
        blurry == words \cap {"blurry", "Unclear", "cannot read"} # {}
        none == words \cap {"no ingredients", "Ingredients Not Found"} # {}
        valid == /\ responseText.body.kind = "object"
                 /\ responseText.body.status \in {"safe", "caution", "unsafe"}
    IN /\ (~valid /\ blurry) =>
             /\ parsed.error = AnalysisError("BLURRY_IMAGE")
             /\ parsed.result = NoResult
       /\ (~valid /\ ~blurry /\ none) =>
             /\ parsed.error = AnalysisError("NO_INGREDIENTS")
             /\ parsed.result = NoResult
       /\ valid =>
             /\ parsed.error = NoError
             /\ parsed.result.status = responseText.body.status

\* C23 witness: a text that is not JSON and says both 'Unclear' and 'no
\* ingredients' has been parsed and gave BLURRY_IMAGE
C23_Witness ==
  /\ parsed.done
  /\ responseText.hints = {"Unclear", "no ingredients"}
  /\ responseText.body.kind = "invalid"
  /\ parsed.error = AnalysisError("BLURRY_IMAGE")
  /\ parsed.result = NoResult

====
